---- MODULE Spec2Model ----
(***************************************************************************)
(* Verification model of the Genryu Japan frontend library code:           *)
(*   - src/lib/markdownParser.ts : slug factory, heading renderer,         *)
(*     parseMarkdown, extractHeadings, generateExcerpt                      *)
(*   - src/lib/strapiClient.ts   : normalize, normalizeResponse,           *)
(*     fetchArticles, fetchArticle, fetchCategories, fetchCategoryGlimpses *)
(*                                                                         *)
(* Strings are sequences of one-character strings.  JSON values are        *)
(* records [t, s, c] (type tag, scalar text, child entries).               *)
(***************************************************************************)
EXTENDS Integers, Sequences, FiniteSets, TLC

VARIABLES
    \* ---- markdownParser.ts ----
    markdown,       \* the Markdown document handed to parseMarkdown / extractHeadings
    callShape,      \* how the Markdown engine calls renderer.heading: "token" | "legacy"
    rendererSeen,   \* seen of the slug factory captured by the module-level renderer
    html,           \* the heading elements of parseMarkdown's output for markdown
    headings,       \* extractHeadings' result for markdown
    extractorSeen,  \* seen of the slug factory of the last extractHeadings call
    renders,        \* number of parseMarkdown calls made so far
    \* ---- generateExcerpt ----
    content, maxLength, excerpt,
    \* ---- normalize / normalizeResponse ----
    nInput, nOp, nResult, nPrev, nCalls,
    \* ---- fetchArticles / fetchArticle / fetchCategories ----
    fOp, fOutcome, fResult,
    \* ---- fetchCategoryGlimpses ----
    gState,         \* the returned promise: "idle" | "pending" | "resolved" | "rejected"
    gpc,            \* per category, where its map callback stands
    articlesData,   \* per category, the callback's local articlesData while it runs
    entries,        \* per category, the value its callback returned
    fetchLog,       \* per category, the fetches issued and how the featured one ended
    glimpses        \* the value the returned promise resolved with

mdVars == <<markdown, callShape, rendererSeen, html, headings, extractorSeen, renders>>
exVars == <<content, maxLength, excerpt>>
nVars  == <<nInput, nOp, nResult, nPrev, nCalls>>
fVars  == <<fOp, fOutcome, fResult>>
gVars  == <<gState, gpc, articlesData, entries, fetchLog, glimpses>>
vars   == <<mdVars, exVars, nVars, fVars, gVars>>

\* the result slot of a call: not made yet, or returned with a value
Pending == [done |-> FALSE, value |-> <<>>]
Done(v) == [done |-> TRUE, value |-> v]

(***************************************************************************)
(* Bounds of the model                                                     *)
(***************************************************************************)
MaxLines == 3          \* lines of a document given to extractHeadings
MaxRenderLines == 2    \* lines of a document given to parseMarkdown
MaxRenders == 2        \* parseMarkdown calls in one process lifetime
MaxContentLen == 4     \* characters of generateExcerpt's content
MaxExcerptLen == 3     \* generateExcerpt's maxLength argument
MaxArticles == 3       \* articles one CMS response carries
MaxRel == 2            \* entities in the payload of one relation wrapper

(***************************************************************************)
(* Characters and string helpers (JavaScript String methods)               *)
(***************************************************************************)
Min(a, b) == IF a < b THEN a ELSE b

Letters == {"a", "b", "c", "e", "i", "n", "o", "s", "t"}
Capitals == {"A", "B"}
DigitChars == {"0", "1", "2", "3", "4", "5", "6", "7", "8", "9"}
Whitespace == {" ", "\n", "\t"}                         \* \s
WordChars == Letters \cup Capitals \cup DigitChars \cup {"_"}   \* \w

Backtick == "BACKTICK"      \* the character U+0060, which a TLA+ string cannot hold

ToLowerChar(c) == CASE c = "A" -> "a" [] c = "B" -> "b" [] OTHER -> c
ToLowerCase(s) == [i \in 1..Len(s) |-> ToLowerChar(s[i])]

RECURSIVE TrimStart(_)
TrimStart(s) == IF s # <<>> /\ Head(s) \in Whitespace THEN TrimStart(Tail(s)) ELSE s

RECURSIVE TrimEnd(_)
TrimEnd(s) ==
    IF s # <<>> /\ s[Len(s)] \in Whitespace THEN TrimEnd(SubSeq(s, 1, Len(s) - 1)) ELSE s

Trim(s) == TrimEnd(TrimStart(s))

Slice(s, n) == SubSeq(s, 1, Min(n, Len(s)))              \* s.slice(0, n), n >= 0

EndsWith(s, suffix) ==
    /\ Len(s) >= Len(suffix)
    /\ SubSeq(s, Len(s) - Len(suffix) + 1, Len(s)) = suffix

\* s.replace(/[^keep]/g, the empty string)
KeepOnly(s, keep) == SelectSeq(s, LAMBDA c : c \in keep)

\* s.replace(/[class]+/g, rep): every maximal run of class characters becomes rep
RECURSIVE ReplaceRuns(_, _, _)
ReplaceRuns(s, class, rep) ==
    IF s = <<>> THEN <<>>
    ELSE IF Head(s) \in class
         THEN IF Len(s) > 1 /\ s[2] \in class
              THEN ReplaceRuns(Tail(s), class, rep)
              ELSE rep \o ReplaceRuns(Tail(s), class, rep)
         ELSE <<Head(s)>> \o ReplaceRuns(Tail(s), class, rep)

\* s.replace(/^-|-$/g, the empty string)
StripEdgeHyphens(s) ==
    LET a == IF s # <<>> /\ Head(s) = "-" THEN Tail(s) ELSE s
    IN  IF a # <<>> /\ a[Len(a)] = "-" THEN SubSeq(a, 1, Len(a) - 1) ELSE a

\* String(n) for n >= 0
DigitOf(d) == <<"0", "1", "2", "3", "4", "5", "6", "7", "8", "9">>[d + 1]
RECURSIVE NumberToString(_)
NumberToString(n) ==
    IF n < 10 THEN <<DigitOf(n)>> ELSE NumberToString(n \div 10) \o <<DigitOf(n % 10)>>

(***************************************************************************)
(* Regular-expression replacements used on Markdown text                   *)
(***************************************************************************)
NoNewline(s, from, to) == \A x \in from..to : s[x] # "\n"     \* '.' excludes \n
Matches(s, at, lit) ==
    /\ at + Len(lit) - 1 <= Len(s)
    /\ SubSeq(s, at, at + Len(lit) - 1) = lit
SetMin(S) == CHOOSE x \in S : \A y \in S : x <= y

\* Positions j where close can end a match of /open(.+?)close/ begun at i
PairCloses(s, open, close, i) ==
    { j \in (i + Len(open) + 1)..Len(s) :
        /\ Matches(s, j, close)
        /\ NoNewline(s, i + Len(open), j - 1) }

\* s.replace(/open(.+?)close/g, $1): leftmost match first, lazy group
RECURSIVE StripPairFrom(_, _, _, _)
StripPairFrom(s, open, close, i) ==
    IF i > Len(s) THEN <<>>
    ELSE IF Matches(s, i, open) /\ PairCloses(s, open, close, i) # {}
         THEN LET j == SetMin(PairCloses(s, open, close, i))
              IN  SubSeq(s, i + Len(open), j - 1)
                    \o StripPairFrom(s, open, close, j + Len(close))
         ELSE <<s[i]>> \o StripPairFrom(s, open, close, i + 1)

StripPair(s, open, close) == StripPairFrom(s, open, close, 1)

\* bold, italic and inline-code markers: the delimiters go, the group stays
StripBold(s) == StripPair(s, <<"*", "*">>, <<"*", "*">>)
StripItalic(s) == StripPair(s, <<"*">>, <<"*">>)
StripCode(s) == StripPair(s, <<Backtick>>, <<Backtick>>)

\* /\[(.+?)\]\(.+?\)/g -> $1
LinkEnds(s, j) ==
    { k \in (j + 3)..Len(s) : s[k] = ")" /\ NoNewline(s, j + 2, k - 1) }
LinkMids(s, i) ==
    { j \in (i + 2)..Len(s) :
        /\ Matches(s, j, <<"]", "(">>)
        /\ NoNewline(s, i + 1, j - 1)
        /\ LinkEnds(s, j) # {} }

RECURSIVE StripLinkFrom(_, _)
StripLinkFrom(s, i) ==
    IF i > Len(s) THEN <<>>
    ELSE IF s[i] = "[" /\ LinkMids(s, i) # {}
         THEN LET j == SetMin(LinkMids(s, i))
                  k == SetMin(LinkEnds(s, j))
              IN  SubSeq(s, i + 1, j - 1) \o StripLinkFrom(s, k + 1)
         ELSE <<s[i]>> \o StripLinkFrom(s, i + 1)

StripLink(s) == StripLinkFrom(s, 1)

\* /<[^>]*>/g -> the empty string
RECURSIVE StripHtmlFrom(_, _)
StripHtmlFrom(s, i) ==
    IF i > Len(s) THEN <<>>
    ELSE LET closes == { k \in (i + 1)..Len(s) : s[k] = ">" }
         IN  IF s[i] = "<" /\ closes # {}
             THEN StripHtmlFrom(s, SetMin(closes) + 1)
             ELSE <<s[i]>> \o StripHtmlFrom(s, i + 1)

StripHtml(s) == StripHtmlFrom(s, 1)

\* /#+\s/g -> the empty string: a run of # directly followed by one whitespace character
RECURSIVE HashRunEnd(_, _)
HashRunEnd(s, i) == IF i < Len(s) /\ s[i + 1] = "#" THEN HashRunEnd(s, i + 1) ELSE i

RECURSIVE StripHeadingMarksFrom(_, _)
StripHeadingMarksFrom(s, i) ==
    IF i > Len(s) THEN <<>>
    ELSE LET m == HashRunEnd(s, i)
         IN  IF s[i] = "#" /\ m < Len(s) /\ s[m + 1] \in Whitespace
             THEN StripHeadingMarksFrom(s, m + 2)
             ELSE <<s[i]>> \o StripHeadingMarksFrom(s, i + 1)

StripHeadingMarks(s) == StripHeadingMarksFrom(s, 1)

(***************************************************************************)
(* createSlugFactory                                                       *)
(***************************************************************************)
SlugMaxLen == 50
SectionSlug == <<"s", "e", "c", "t", "i", "o", "n">>
SlugKeep == WordChars \cup Whitespace \cup {"-"}

\* the base / slug computation of the closure
BaseSlug(text) ==
    LET trimmed  == Trim(text)
        lowered  == ToLowerCase(trimmed)
        kept     == KeepOnly(lowered, SlugKeep)
        hyphened == ReplaceRuns(kept, Whitespace, <<"-">>)
        single   == ReplaceRuns(hyphened, {"-"}, <<"-">>)
        edged    == StripEdgeHyphens(single)
        base     == Slice(edged, SlugMaxLen)
    IN  IF base = <<>> THEN SectionSlug ELSE base

\* Map<string, number>
EmptyMap == [k \in {} |-> 0]
MapGet(m, k) == IF k \in DOMAIN m THEN m[k] ELSE 0         \* seen.get(k) ?? 0
MapSet(m, k, v) == [x \in DOMAIN m \cup {k} |-> IF x = k THEN v ELSE m[x]]

SlugSuffixWrong(slug, count) == slug \o <<"-">> \o NumberToString(count)
\* ${slug}-${count + 1}
SlugSuffix(slug, count) == slug \o <<"-">> \o NumberToString(count + 1)

\* one call of the closure returned by createSlugFactory, on registry seen
Slugify(seen, text) ==
    LET slug  == BaseSlug(text)
        count == MapGet(seen, slug)
    IN  [ seen |-> MapSet(seen, slug, count + 1),
          id   |-> IF count = 0 THEN slug ELSE SlugSuffix(slug, count) ]


(***************************************************************************)
(* Markdown documents.  A document is a sequence of ATX heading lines;     *)
(* [depth |-> d, text |-> t] stands for the line  "#"^d " " t.             *)
(***************************************************************************)
MaxHeadingLevel == 3        \* the extractor's pattern accepts one to three # marks

HeadingTexts ==
    { <<"a">>,                                   \* a
      <<"A">>,                                   \* A        (same slug as a)
      <<"a", " ", "2">>,                         \* a 2      (slug has the form of a suffixed slug)
      <<"[", "a", "]", "(", "b", ")">>,          \* [a](b)   (inline link)
      <<"!">> }                                  \* !        (nothing survives: section)

LineDepths == 1..(MaxHeadingLevel + 1)           \* h1-h3, and h4 standing for h4 and deeper
Lines == [depth : LineDepths, text : HeadingTexts]
Documents(n) == UNION { [1..k -> Lines] : k \in 0..n }

(***************************************************************************)
(* createRenderer / renderer.heading                                       *)
(***************************************************************************)
\* The arguments the Markdown engine passes to renderer.heading for one heading
\* line: a single token, or the legacy positional (text, level).  Both carry the
\* heading's inline source text here.
HeadingArgs(shape, line) ==
    IF shape = "token"
    THEN << [depth |-> line.depth, text |-> line.text] >>
    ELSE << line.text, line.depth >>

\* renderer.heading(...args): the element <h{level} id="{id}">{text}</h{level}>
Heading(seen, args) ==
    IF Len(args) = 1
    THEN LET token == args[1]
             r == Slugify(seen, token.text)
         IN  [ seen |-> r.seen,
               el   |-> [level |-> token.depth, id |-> r.id, text |-> token.text] ]
    ELSE LET r == Slugify(seen, args[1])
         IN  [ seen |-> r.seen,
               el   |-> [level |-> args[2], id |-> r.id, text |-> args[1]] ]

\* marked.parse(markdown) with the configured renderer: one heading call per
\* heading line, in document order, all on the renderer's one slug factory
RECURSIVE RenderLines(_, _, _, _)
RenderLines(seen, shape, md, i) ==
    IF i > Len(md) THEN [seen |-> seen, html |-> <<>>]
    ELSE LET h    == Heading(seen, HeadingArgs(shape, md[i]))
             rest == RenderLines(h.seen, shape, md, i + 1)
         IN  [seen |-> rest.seen, html |-> <<h.el>> \o rest.html]

\* parseMarkdown(markdown); `seen` is the registry of the renderer in use
ParseMarkdown(seen, shape, md) ==
    IF md = <<>> THEN [seen |-> seen, html |-> <<>>]
    ELSE RenderLines(seen, shape, md, 1)

(***************************************************************************)
(* extractHeadings                                                         *)
(***************************************************************************)
\* the display text of a matched line
DisplayText(raw) ==
    Trim(StripHtml(StripItalic(StripBold(StripCode(StripLink(Trim(raw)))))))

\* headingRegex matches the line
IsOutlineLine(line) == line.depth <= MaxHeadingLevel /\ line.text # <<>>

RECURSIVE ExtractLines(_, _, _)
ExtractLines(seen, md, i) ==
    IF i > Len(md) THEN [seen |-> seen, headings |-> <<>>]
    ELSE IF IsOutlineLine(md[i])
         THEN LET text == DisplayText(md[i].text)
                  r    == Slugify(seen, text)
                  rest == ExtractLines(r.seen, md, i + 1)
              IN  [ seen |-> rest.seen,
                    headings |-> << [level |-> md[i].depth, text |-> text, id |-> r.id] >>
                                   \o rest.headings ]
         ELSE ExtractLines(seen, md, i + 1)

\* extractHeadings(markdown): a slug factory of its own for every call
ExtractHeadings(md) ==
    IF md = <<>> THEN [seen |-> EmptyMap, headings |-> <<>>]
    ELSE ExtractLines(EmptyMap, md, 1)

(***************************************************************************)
(* generateExcerpt                                                         *)
(***************************************************************************)
Ellipsis == <<".", ".", ".">>

PlainText(c) ==
    LET a == StripHeadingMarks(c)
        b == StripBold(a)
        d == StripItalic(b)
        e == StripLink(d)
        f == StripCode(e)
        g == StripHtml(f)
        h == ReplaceRuns(g, {"\n"}, <<" ">>)
        k == ReplaceRuns(h, Whitespace, <<" ">>)
    IN  Trim(k)

GenerateExcerptOffByOne(c, n) ==
    IF c = <<>> THEN <<>>
    ELSE IF Len(PlainText(c)) < n THEN PlainText(c)
         ELSE TrimEnd(Slice(PlainText(c), n)) \o Ellipsis

GenerateExcerpt(c, n) ==
    IF c = <<>> THEN <<>>
    ELSE IF Len(PlainText(c)) <= n THEN PlainText(c)
         ELSE TrimEnd(Slice(PlainText(c), n)) \o Ellipsis


(***************************************************************************)
(* JSON values: [t |-> type tag, s |-> scalar text, c |-> child entries];  *)
(* a child entry is [k |-> property name, v |-> value], in insertion order *)
(* (array elements carry the empty name).                                  *)
(***************************************************************************)
JNull == [t |-> "null", s |-> "", c |-> <<>>]
JUndef == [t |-> "undefined", s |-> "", c |-> <<>>]
JNum(x) == [t |-> "num", s |-> x, c |-> <<>>]
JStr(x) == [t |-> "str", s |-> x, c |-> <<>>]
JBool(x) == [t |-> "bool", s |-> x, c |-> <<>>]
JArr(items) == [t |-> "arr", s |-> "", c |-> [i \in 1..Len(items) |-> [k |-> "", v |-> items[i]]]]
JObj(props) == [t |-> "obj", s |-> "", c |-> props]
Prop(k, v) == [k |-> k, v |-> v]
Obj1(k, v) == JObj(<<Prop(k, v)>>)
Obj2(k1, v1, k2, v2) == JObj(<<Prop(k1, v1), Prop(k2, v2)>>)

Items(a) == [i \in 1..Len(a.c) |-> a.c[i].v]                 \* elements of an array
Falsy(v) ==                                                  \* !v
    \/ v.t \in {"null", "undefined"}
    \/ v.t = "num" /\ v.s = "0"
    \/ v.t = "str" /\ v.s = ""
    \/ v.t = "bool" /\ v.s = "false"
TypeofObject(v) == v.t \in {"obj", "arr", "null"}            \* typeof v === 'object'
IsArray(v) == v.t = "arr"                                    \* Array.isArray(v)
\* k in v, for an object or an array v and a property name k that is no array index
HasKey(v, k) == v.t = "obj" /\ \E i \in 1..Len(v.c) : v.c[i].k = k
\* v.k (v?.k for null and undefined)
Get(v, k) ==
    IF HasKey(v, k) THEN v.c[CHOOSE i \in 1..Len(v.c) : v.c[i].k = k].v ELSE JUndef

\* obj[k] = v on a property list
Put(props, k, v) ==
    IF \E i \in 1..Len(props) : props[i].k = k
    THEN [i \in 1..Len(props) |-> IF props[i].k = k THEN Prop(k, v) ELSE props[i]]
    ELSE Append(props, Prop(k, v))

RECURSIVE PutAll(_, _)
PutAll(props, more) ==
    IF more = <<>> THEN props ELSE PutAll(Put(props, Head(more).k, Head(more).v), Tail(more))

\* the own enumerable properties { ...v } copies (strings here are at most one character)
SpreadProps(v) ==
    CASE v.t = "obj" -> v.c
      [] v.t = "arr" -> [i \in 1..Len(v.c) |-> Prop(DigitOf(i - 1), v.c[i].v)]
      [] v.t = "str" /\ v.s # "" -> <<Prop("0", v)>>
      [] OTHER -> <<>>

\* structural equality of two values, property order aside
RECURSIVE DeepEq(_, _)
DeepEq(a, b) ==
    /\ a.t = b.t
    /\ a.s = b.s
    /\ Len(a.c) = Len(b.c)
    /\ IF a.t = "arr"
       THEN \A i \in 1..Len(a.c) : DeepEq(a.c[i].v, b.c[i].v)
       ELSE \A i \in 1..Len(a.c) :
               \E j \in 1..Len(b.c) : a.c[i].k = b.c[j].k /\ DeepEq(a.c[i].v, b.c[j].v)

(***************************************************************************)
(* normalize / normalizeResponse                                           *)
(***************************************************************************)
\* the entity test of normalize: an object carrying both id and attributes
IsEntity(v) == ~Falsy(v) /\ TypeofObject(v) /\ HasKey(v, "id") /\ HasKey(v, "attributes")
\* the relation test of normalize: a truthy object carrying data
IsWrapper(v) == ~Falsy(v) /\ TypeofObject(v) /\ HasKey(v, "data")

RECURSIVE Normalize(_)
\* the replacement of one property value in the loop over Object.keys(normalized)
NormalizeField(value) ==
    IF IsWrapper(value)
    THEN LET rel == Get(value, "data")
         IN  IF rel.t = "null" THEN JNull
             ELSE IF IsArray(rel)
                  THEN JArr([i \in 1..Len(rel.c) |-> Normalize(rel.c[i].v)])
                  ELSE Normalize(rel)
    ELSE value

Normalize(entity) ==
    IF Falsy(entity) THEN JNull
    ELSE IF IsEntity(entity)
         THEN LET attributes == Get(entity, "attributes")
                  merged == PutAll(<<Prop("id", Get(entity, "id"))>>,
                                   IF attributes.t \in {"null", "undefined"}
                                   THEN <<>> ELSE SpreadProps(attributes))
              IN  JObj([i \in 1..Len(merged) |->
                          Prop(merged[i].k, NormalizeField(merged[i].v))])
         ELSE entity

NormalizeResponse(response) ==
    LET data == Get(response, "data")
    IN  Obj2("data", IF IsArray(data)
                     THEN JArr([i \in 1..Len(data.c) |-> Normalize(data.c[i].v)])
                     ELSE Normalize(data),
             "meta", Get(response, "meta"))


(***************************************************************************)
(* Content fetch layer.  An HTTP outcome is how one fetch(...) went:       *)
(* kind "network_error" (fetch rejects), "http_error" (res.ok is false),   *)
(* "invalid_json" (res.json() rejects) or "ok" (body is the parsed JSON).  *)
(* A settled promise is [state |-> "fulfilled" | "rejected", value |-> v]. *)
(***************************************************************************)
FailureKinds == {"network_error", "http_error", "invalid_json"}
Fulfilled(v) == [state |-> "fulfilled", value |-> v]
Rejected == [state |-> "rejected", value |-> JUndef]

\* whether the try block throws
Throws(outcome) == outcome.kind \in FailureKinds

\* Array.isArray(d) ? d : d ? [d] : []
AsArray(d) == IF IsArray(d) THEN d ELSE IF ~Falsy(d) THEN JArr(<<d>>) ELSE JArr(<<>>)

FetchArticlesNoCatch(outcome) ==
    IF Throws(outcome)
    THEN IF outcome.kind = "invalid_json" THEN Rejected
         ELSE Fulfilled(Obj2("data", JArr(<<>>), "meta", JObj(<<>>)))
    ELSE LET normalized == NormalizeResponse(outcome.body)
         IN  Fulfilled(Obj2("data", AsArray(Get(normalized, "data")),
                            "meta", Get(normalized, "meta")))

FetchArticles(outcome) ==
    IF Throws(outcome)
    THEN Fulfilled(Obj2("data", JArr(<<>>), "meta", JObj(<<>>)))
    ELSE LET normalized == NormalizeResponse(outcome.body)
         IN  Fulfilled(Obj2("data", AsArray(Get(normalized, "data")),
                            "meta", Get(normalized, "meta")))

FetchArticle(outcome) ==
    IF Throws(outcome)
    THEN Fulfilled(JNull)
    ELSE LET normalized == NormalizeResponse(outcome.body)
             items == AsArray(Get(normalized, "data"))
         IN  Fulfilled(IF Len(items.c) = 0 \/ items.c[1].v.t \in {"null", "undefined"}
                       THEN JNull ELSE items.c[1].v)

FetchCategories(outcome) ==
    IF Throws(outcome)
    THEN Fulfilled(Obj1("data", JArr(<<>>)))
    ELSE LET normalized == NormalizeResponse(outcome.body)
         IN  Fulfilled(Obj2("data", AsArray(Get(normalized, "data")),
                            "meta", Get(normalized, "meta")))

(***************************************************************************)
(* fetchCategoryGlimpses                                                   *)
(***************************************************************************)
categories == <<"culture", "language", "food", "society", "art", "travel">>
CategorySet == { categories[i] : i \in 1..Len(categories) }
GlimpseSize == 2

\* articlesData.data.slice(0, 2)
SliceArr(a, n) == JArr(SubSeq(Items(a), 1, Min(n, Len(a.c))))

GlimpseEntryOneTooMany(categorySlug, articlesDataC) ==
    Obj2("category", JStr(categorySlug),
         "articles", SliceArr(Get(articlesDataC, "data"), GlimpseSize + 1))

\* the object one map callback returns
GlimpseEntry(categorySlug, articlesDataC) ==
    Obj2("category", JStr(categorySlug),
         "articles", SliceArr(Get(articlesDataC, "data"), GlimpseSize))

\* the fallback condition: articlesData.data.length === 0
NeedsFallback(articlesDataC) == Len(Get(articlesDataC, "data").c) = 0


(***************************************************************************)
(* Inputs                                                                  *)
(***************************************************************************)
\* generateExcerpt: every string over ExcerptChars up to MaxContentLen, and a few
\* with link, code and HTML markup; maxLength is always passed explicitly
ExcerptChars == {"a", " ", "*", "#", "\n"}
MarkupContents ==
    { <<"[", "a", "]", "(", "b", ")", " ", "a", "a">>,
      <<Backtick, "a", Backtick, " ", "a", "a", "a">>,
      <<"<", "b", ">", "a", "a", " ", "a", "<", "/", "b", ">">> }
Contents ==
    UNION { [1..k -> ExcerptChars] : k \in 0..MaxContentLen }
        \cup MarkupContents
ExcerptLengths == 0..MaxExcerptLen

\* normalize: CMS entity graphs and values of other shapes
Scalars == { JNull, JNum("0"), JNum("1"), JStr(""), JStr("x"), JBool("false"), JBool("true") }
Entity(id, attributes) == Obj2("id", JNum(id), "attributes", attributes)
Wrap(payload) == Obj1("data", payload)
SubEntities ==
    { Entity("2", Obj1("title", JStr("x"))),
      Entity("2", JNull),
      Entity("2", Obj1("icon", Wrap(JNull))),
      Entity("2", Obj1("icon", Wrap(Entity("3", JObj(<<>>))))) }
FlatObjects ==
    { JObj(<<>>),
      Obj1("title", JStr("x")),                               \* component
      Obj2("id", JNum("2"), "title", JStr("x")),              \* already normalized entity
      Obj1("icon", Wrap(JNull)),                              \* component holding a relation
      Obj2("id", JNum("2"), "icon", Wrap(Entity("3", JObj(<<>>)))) }
RelTargets == SubEntities \cup FlatObjects
Payloads ==
    {JNull} \cup RelTargets
        \cup { JArr(a) : a \in UNION { [1..k -> RelTargets] : k \in 0..MaxRel } }
Wrappers == { Wrap(p) : p \in Payloads }
AttrValues ==
    Scalars \cup Wrappers \cup FlatObjects
        \cup { JArr(<<v>>) : v \in Scalars \cup {Wrap(JNull), Wrap(Entity("3", JObj(<<>>)))} }
AttrKeys == <<"title", "id", "attributes", "seo">>
AttrMaps ==
    { JObj(<<>>) }
        \cup { Obj1(AttrKeys[i], v) : i \in 1..Len(AttrKeys), v \in AttrValues }
        \cup { Obj2(AttrKeys[i], v, AttrKeys[j], w) :
                 i \in 1..Len(AttrKeys), j \in 1..Len(AttrKeys),
                 v \in Scalars \cup { Wrap(JNull), Obj1("title", JStr("x")) },
                 w \in FlatObjects \cup { Wrap(JNull), JNum("1") } }
Entities == { Entity("1", a) : a \in AttrMaps \cup {JNull} }
NormalizeInputs == {JUndef} \cup Entities \cup AttrValues
Responses ==
    { Obj2("data", d, "meta", JObj(<<>>)) :
        d \in Entities \cup Scalars \cup FlatObjects
              \cup { JArr(<<e>>) : e \in Entities \cup Scalars }
              \cup { JArr(<<e, JNum("0")>>) : e \in SubEntities }
              \cup { JArr(<<>>) } }
        \cup { Obj1("data", JArr(<<Entity("1", JObj(<<>>))>>)), JNull, JNum("1") }

\* the HTTP outcomes of one request
Outcomes ==
    { [kind |-> k, body |-> JUndef] : k \in FailureKinds }
        \cup { [kind |-> "ok", body |-> b] : b \in Responses }
NoOutcome == [kind |-> "none", body |-> JUndef]

\* the CMS answer to a category request: n articles, each carrying the category
\* and the featured flag of the request it answers
Article(n, categorySlug, featured) ==
    Entity(DigitOf(n), Obj2("category", JStr(categorySlug),
                            "featured", JBool(IF featured THEN "true" ELSE "false")))
CategoryOutcomes(categorySlug, featured) ==
    { [kind |-> k, body |-> JUndef] : k \in FailureKinds }
        \cup { [kind |-> "ok",
                body |-> Obj2("data",
                              JArr([i \in 1..n |-> Article(i, categorySlug, featured)]),
                              "meta", JObj(<<>>))] : n \in 0..MaxArticles }

(***************************************************************************)
(* Initial values of each part of the state                                *)
(***************************************************************************)
MdIdle ==
    /\ markdown = <<>> /\ callShape = "token" /\ rendererSeen = EmptyMap
    /\ html = Pending /\ headings = Pending /\ extractorSeen = EmptyMap /\ renders = 0
ExIdle == content = <<>> /\ maxLength = 0 /\ excerpt = Pending
NIdle ==
    /\ nInput = JUndef /\ nOp = "none" /\ nResult = JUndef /\ nPrev = JUndef /\ nCalls = 0
FIdle == fOp = "idle" /\ fOutcome = NoOutcome /\ fResult = Pending
GIdle ==
    /\ gState = "idle"
    /\ gpc = <<>> /\ articlesData = <<>> /\ entries = <<>> /\ fetchLog = <<>>
    /\ glimpses = JUndef

(***************************************************************************)
(* Markdown pipeline: operations                                           *)
(***************************************************************************)
\* parseMarkdown(markdown) on the renderer installed by marked.setOptions
ParseMarkdownCall ==
    /\ ~html.done
    /\ renders < MaxRenders
    /\ LET r == ParseMarkdown(rendererSeen, callShape, markdown)
       IN  /\ rendererSeen' = r.seen
           /\ html' = Done(r.html)
    /\ renders' = renders + 1
    /\ UNCHANGED <<markdown, callShape, headings, extractorSeen>>
    /\ UNCHANGED <<exVars, nVars, fVars, gVars>>

\* extractHeadings(markdown)
ExtractHeadingsCall ==
    /\ ~headings.done
    /\ LET r == ExtractHeadings(markdown)
       IN  /\ headings' = Done(r.headings)
           /\ extractorSeen' = r.seen
    /\ UNCHANGED <<markdown, callShape, rendererSeen, html, renders>>
    /\ UNCHANGED <<exVars, nVars, fVars, gVars>>

\* the caller moves on to the next article body
NextDocument ==
    /\ html.done
    /\ renders < MaxRenders
    /\ \E md \in Documents(MaxRenderLines) : markdown' = md
    /\ html' = Pending
    /\ headings' = Pending
    /\ extractorSeen' = EmptyMap
    /\ UNCHANGED <<callShape, rendererSeen, renders>>
    /\ UNCHANGED <<exVars, nVars, fVars, gVars>>

InitRender ==
    /\ markdown \in Documents(MaxRenderLines)
    /\ callShape \in {"token", "legacy"}
    /\ rendererSeen = EmptyMap          \* createRenderer() ran once, at module load
    /\ html = Pending /\ headings = Pending /\ extractorSeen = EmptyMap /\ renders = 0
    /\ ExIdle /\ NIdle /\ FIdle /\ GIdle
NextRender == ParseMarkdownCall \/ ExtractHeadingsCall \/ NextDocument
SpecRender == InitRender /\ [][NextRender]_vars

InitExtract ==
    /\ markdown \in Documents(MaxLines)
    /\ callShape = "token" /\ rendererSeen = EmptyMap
    /\ html = Pending /\ headings = Pending /\ extractorSeen = EmptyMap /\ renders = 0
    /\ ExIdle /\ NIdle /\ FIdle /\ GIdle
NextExtract == ExtractHeadingsCall
SpecExtract == InitExtract /\ [][NextExtract]_vars

(***************************************************************************)
(* generateExcerpt: operation                                              *)
(***************************************************************************)
GenerateExcerptCall ==
    /\ ~excerpt.done
    /\ excerpt' = Done(GenerateExcerpt(content, maxLength))
    /\ UNCHANGED <<content, maxLength>>
    /\ UNCHANGED <<mdVars, nVars, fVars, gVars>>

InitExcerpt ==
    /\ content \in Contents
    /\ maxLength \in ExcerptLengths
    /\ excerpt = Pending
    /\ MdIdle /\ NIdle /\ FIdle /\ GIdle
NextExcerpt == GenerateExcerptCall
SpecExcerpt == InitExcerpt /\ [][NextExcerpt]_vars


(***************************************************************************)
(* Claims about the Markdown pipeline                                      *)
(***************************************************************************)
Ids(hs) == [i \in 1..Len(hs) |-> hs[i].id]
\* how many of the first i headings of hs have the base slug of heading i
Occurrence(hs, i) ==
    Cardinality({ j \in 1..i : BaseSlug(hs[j].text) = BaseSlug(hs[i].text) })
ExpectedId(hs, i) ==
    IF Occurrence(hs, i) = 1
    THEN BaseSlug(hs[i].text)
    ELSE BaseSlug(hs[i].text) \o <<"-">> \o NumberToString(Occurrence(hs, i))

\* C1: the slug registry is fresh per document: in every document parseMarkdown
\* renders, the first heading with base slug s gets the id s, whatever was
\* rendered before.
C1_FreshRegistryPerRender ==
    html.done =>
        \A i \in 1..Len(html.value) :
            Occurrence(html.value, i) = 1 => html.value[i].id = BaseSlug(html.value[i].text)

\* C2: no two headings extractHeadings returns for one document have the same id.
C2_HeadingIdsUnique ==
    headings.done =>
        \A i, j \in 1..Len(headings.value) :
            i # j => headings.value[i].id # headings.value[j].id

\* C3: the ids the renderer puts on the h1-h3 headings of a document are, in
\* order, the ids extractHeadings returns for the same document.
C3_AnchorIdsMatch ==
    (html.done /\ headings.done) =>
        Ids(SelectSeq(html.value, LAMBDA el : el.level <= MaxHeadingLevel))
            = Ids(headings.value)

\* C10: within one extractHeadings call the outline lists the h1-h3 lines in
\* document order, the first heading with base slug s has id s, the N-th (N >= 2)
\* has id s-N, and the registry counts, for every base slug, the headings that
\* had it.
C10_DedupNumbering ==
    headings.done =>
        LET hs == headings.value
            outline == SelectSeq(markdown, IsOutlineLine)
        IN  /\ Len(hs) = Len(outline)
            /\ \A i \in 1..Len(hs) :
                   /\ hs[i].level = outline[i].depth
                   /\ hs[i].text = DisplayText(outline[i].text)
                   /\ hs[i].id = ExpectedId(hs, i)
            /\ DOMAIN extractorSeen = { BaseSlug(hs[i].text) : i \in 1..Len(hs) }
            /\ \A s \in DOMAIN extractorSeen :
                   extractorSeen[s]
                       = Cardinality({ i \in 1..Len(hs) : BaseSlug(hs[i].text) = s })

\* C10 witness: an outline whose third heading is the third with its base slug
C10_Witness ==
    /\ headings.done
    /\ Len(headings.value) = 3
    /\ headings.value[3].id = BaseSlug(headings.value[1].text) \o <<"-", "3">>
    /\ extractorSeen[BaseSlug(headings.value[1].text)] = 3

\* C8 (as stated): plain text of at most maxLength characters is returned as it
\* is; longer plain text gives a string of length at most maxLength + 1 that ends
\* in the ellipsis marker.
C8_ExcerptWithinOneOfMax ==
    excerpt.done =>
        IF Len(PlainText(content)) <= maxLength
        THEN excerpt.value = PlainText(content)
        ELSE /\ Len(excerpt.value) <= maxLength + 1
             /\ EndsWith(excerpt.value, Ellipsis)

\* C8 (amended): plain text of at most maxLength characters is returned as it
\* is; longer plain text gives a string of length at most maxLength + 3, the
\* first maxLength characters of the plain text with trailing whitespace removed,
\* followed by the three-character marker "...".
C8_ExcerptWithinEllipsisOfMax ==
    excerpt.done =>
        IF Len(PlainText(content)) <= maxLength
        THEN excerpt.value = PlainText(content)
        ELSE /\ Len(excerpt.value) <= maxLength + Len(Ellipsis)
             /\ EndsWith(excerpt.value, Ellipsis)
             /\ LET kept == SubSeq(excerpt.value, 1, Len(excerpt.value) - Len(Ellipsis))
                IN  /\ kept = SubSeq(PlainText(content), 1, Len(kept))
                    /\ (kept # <<>> => kept[Len(kept)] \notin Whitespace)

\* C8 witness: a truncated excerpt that is maxLength + 3 characters long
C8_Witness ==
    /\ excerpt.done
    /\ Len(PlainText(content)) > maxLength
    /\ maxLength > 0
    /\ Len(excerpt.value) = maxLength + Len(Ellipsis)


(***************************************************************************)
(* Response normalizer: operations                                         *)
(***************************************************************************)
\* normalize(nInput)
NormalizeCall ==
    /\ nOp = "none"
    /\ nInput \in NormalizeInputs
    /\ nOp' = "normalize"
    /\ nResult' = Normalize(nInput)
    /\ nPrev' = nInput
    /\ nCalls' = 1
    /\ UNCHANGED nInput
    /\ UNCHANGED <<mdVars, exVars, fVars, gVars>>

\* normalize applied to the value a normalize call returned
NormalizeAgain ==
    /\ nOp = "normalize"
    /\ nCalls = 1
    /\ nResult' = Normalize(nResult)
    /\ nPrev' = nResult
    /\ nCalls' = 2
    /\ UNCHANGED <<nInput, nOp>>
    /\ UNCHANGED <<mdVars, exVars, fVars, gVars>>

\* normalizeResponse(nInput)
NormalizeResponseCall ==
    /\ nOp = "none"
    /\ nInput \in Responses
    /\ nOp' = "normalizeResponse"
    /\ nResult' = NormalizeResponse(nInput)
    /\ nPrev' = nInput
    /\ nCalls' = 1
    /\ UNCHANGED nInput
    /\ UNCHANGED <<mdVars, exVars, fVars, gVars>>

InitNormalize ==
    /\ nInput \in NormalizeInputs \cup Responses
    /\ nOp = "none" /\ nResult = JUndef /\ nPrev = JUndef /\ nCalls = 0
    /\ MdIdle /\ ExIdle /\ FIdle /\ GIdle
NextNormalize == NormalizeCall \/ NormalizeAgain \/ NormalizeResponseCall
SpecNormalize == InitNormalize /\ [][NextNormalize]_vars

(***************************************************************************)
(* Content fetch layer: operations                                         *)
(***************************************************************************)
FetchArticlesCall ==
    /\ fOp = "idle"
    /\ \E outcome \in Outcomes :
          /\ fOutcome' = outcome
          /\ fResult' = Done(FetchArticles(outcome))
    /\ fOp' = "fetchArticles"
    /\ UNCHANGED <<mdVars, exVars, nVars, gVars>>

FetchArticleCall ==
    /\ fOp = "idle"
    /\ \E outcome \in Outcomes :
          /\ fOutcome' = outcome
          /\ fResult' = Done(FetchArticle(outcome))
    /\ fOp' = "fetchArticle"
    /\ UNCHANGED <<mdVars, exVars, nVars, gVars>>

FetchCategoriesCall ==
    /\ fOp = "idle"
    /\ \E outcome \in Outcomes :
          /\ fOutcome' = outcome
          /\ fResult' = Done(FetchCategories(outcome))
    /\ fOp' = "fetchCategories"
    /\ UNCHANGED <<mdVars, exVars, nVars, gVars>>

InitFetch == FIdle /\ MdIdle /\ ExIdle /\ NIdle /\ GIdle
NextFetch == FetchArticlesCall \/ FetchArticleCall \/ FetchCategoriesCall
SpecFetch == InitFetch /\ [][NextFetch]_vars

(***************************************************************************)
(* fetchCategoryGlimpses: the call, the settling of each fetch, and the    *)
(* resolution of Promise.all                                               *)
(***************************************************************************)
\* what the fetchArticles call of a callback can settle with, per request
SettledFetches ==
    [ c \in CategorySet, featured \in BOOLEAN |->
        { FetchArticles(outcome) : outcome \in CategoryOutcomes(c, featured) } ]

\* fetchCategoryGlimpses(locale): categories.map runs every callback up to its
\* first await, so the six featured fetches are issued in the call itself
GlimpsesCall ==
    /\ gState = "idle"
    /\ gState' = "pending"
    /\ gpc' = [c \in CategorySet |-> "awaitFeatured"]
    /\ articlesData' = [c \in CategorySet |-> JUndef]
    /\ entries' = [c \in CategorySet |-> JUndef]
    /\ fetchLog' = [c \in CategorySet |-> [featured |-> "pending", fallback |-> "none"]]
    /\ UNCHANGED glimpses
    /\ UNCHANGED <<mdVars, exVars, nVars, fVars>>

\* a callback resumes with the value of its featured fetchArticles call
FeaturedSettles(c) ==
    /\ gState = "pending"
    /\ gpc[c] = "awaitFeatured"
    /\ \E p \in SettledFetches[c, TRUE] :
              IF p.state = "rejected"
              THEN /\ gState' = "rejected"
                   /\ gpc' = [gpc EXCEPT ![c] = "threw"]
                   /\ UNCHANGED <<articlesData, entries, fetchLog>>
              ELSE /\ gState' = gState
                   /\ IF NeedsFallback(p.value)
                      THEN /\ articlesData' = [articlesData EXCEPT ![c] = p.value]
                           /\ gpc' = [gpc EXCEPT ![c] = "awaitFallback"]
                           /\ fetchLog' = [fetchLog EXCEPT
                                  ![c] = [featured |-> "empty", fallback |-> "pending"]]
                           /\ UNCHANGED entries
                      ELSE /\ articlesData' = [articlesData EXCEPT ![c] = JUndef]
                           /\ gpc' = [gpc EXCEPT ![c] = "done"]
                           /\ fetchLog' = [fetchLog EXCEPT ![c].featured = "nonempty"]
                           /\ entries' = [entries EXCEPT ![c] = GlimpseEntry(c, p.value)]
    /\ UNCHANGED glimpses
    /\ UNCHANGED <<mdVars, exVars, nVars, fVars>>

\* a callback resumes with the value of its unfiltered fallback fetchArticles call
FallbackSettles(c) ==
    /\ gState = "pending"
    /\ gpc[c] = "awaitFallback"
    /\ \E p \in SettledFetches[c, FALSE] :
              IF p.state = "rejected"
              THEN /\ gState' = "rejected"
                   /\ gpc' = [gpc EXCEPT ![c] = "threw"]
                   /\ UNCHANGED <<articlesData, entries, fetchLog>>
              ELSE /\ articlesData' = [articlesData EXCEPT ![c] = JUndef]
                   /\ gState' = gState
                   /\ gpc' = [gpc EXCEPT ![c] = "done"]
                   /\ fetchLog' = [fetchLog EXCEPT ![c].fallback = "resolved"]
                   /\ entries' = [entries EXCEPT ![c] = GlimpseEntry(c, p.value)]
    /\ UNCHANGED glimpses
    /\ UNCHANGED <<mdVars, exVars, nVars, fVars>>

\* Promise.all resolves: the callbacks' values, in the order of categories
GlimpsesResolve ==
    /\ gState = "pending"
    /\ \A c \in CategorySet : gpc[c] = "done"
    /\ gState' = "resolved"
    /\ glimpses' = JArr([i \in 1..Len(categories) |-> entries[categories[i]]])
    /\ UNCHANGED <<gpc, articlesData, entries, fetchLog>>
    /\ UNCHANGED <<mdVars, exVars, nVars, fVars>>

InitGlimpses == GIdle /\ MdIdle /\ ExIdle /\ NIdle /\ FIdle
NextGlimpses ==
    \/ GlimpsesCall
    \/ \E c \in CategorySet : FeaturedSettles(c)
    \/ \E c \in CategorySet : FallbackSettles(c)
    \/ GlimpsesResolve
SpecGlimpses == InitGlimpses /\ [][NextGlimpses]_vars


(***************************************************************************)
(* Claims about the response normalizer                                    *)
(***************************************************************************)
\* a relation wrapper is left somewhere below v
RECURSIVE HasWrapper(_)
HasWrapper(v) ==
    \E i \in 1..Len(v.c) : IsWrapper(v.c[i].v) \/ HasWrapper(v.c[i].v)

\* a CMS response: data is one entity or a sequence of entities
IsCmsResponse(r) ==
    LET data == Get(r, "data")
    IN  \/ IsEntity(data)
        \/ IsArray(data) /\ \A i \in 1..Len(data.c) : IsEntity(data.c[i].v)

\* C4: normalization is idempotent: for every CMS entity e,
\* normalize(normalize(e)) equals normalize(e).
C4_NormalizeIdempotent ==
    (nOp = "normalize" /\ nCalls = 2 /\ IsEntity(nInput)) => DeepEq(nResult, nPrev)

\* C5: after normalizeResponse of a CMS response no relation wrapper remains at
\* any depth of the result's data.
C5_NoWrapperRemains ==
    (nOp = "normalizeResponse" /\ IsCmsResponse(nInput)) =>
        ~HasWrapper(Obj1("data", Get(nResult, "data")))

\* C9: normalize returns every value that is not an entity unchanged, and
\* normalizeResponse maps a data sequence of such values to an equal sequence.
C9_NonEntityUnchanged ==
    /\ (nOp = "normalize" /\ nCalls = 1 /\ ~IsEntity(nInput) /\ nInput.t # "undefined")
           => nResult = nInput
    /\ ( /\ nOp = "normalizeResponse"
         /\ IsArray(Get(nInput, "data"))
         /\ \A i \in 1..Len(Get(nInput, "data").c) : ~IsEntity(Get(nInput, "data").c[i].v) )
           => Get(nResult, "data") = Get(nInput, "data")

(***************************************************************************)
(* Claims about the content fetch layer                                    *)
(***************************************************************************)
\* C6: whatever the outcome of the HTTP request, the fetch operations fulfil:
\* fetchArticles and fetchCategories with a result whose data is a sequence,
\* empty on every failure; fetchArticle with null on every failure.
C6_FetchNeverRejects ==
    fResult.done =>
        /\ fResult.value.state = "fulfilled"
        /\ fOp \in {"fetchArticles", "fetchCategories"} =>
               /\ IsArray(Get(fResult.value.value, "data"))
               /\ fOutcome.kind \in FailureKinds =>
                      Len(Get(fResult.value.value, "data").c) = 0
        /\ (fOp = "fetchArticle" /\ fOutcome.kind \in FailureKinds) =>
               fResult.value.value = JNull

\* C6 witness: fetchArticles fulfilled with an empty list after res.json() failed
C6_Witness ==
    /\ fResult.done
    /\ fOp = "fetchArticles"
    /\ fOutcome.kind = "invalid_json"
    /\ fResult.value.state = "fulfilled"
    /\ Get(fResult.value.value, "data") = JArr(<<>>)

\* C7: in every interleaving of the per-category fetches and every mix of
\* success and failure, the promise never rejects, a fallback fetch is issued
\* only after the category's featured fetch resolved with no data, and the
\* result has one entry per category, in the order of categories, each with at
\* most 2 articles, all from responses to that category's own requests.
C7_GlimpsesByCategory ==
    /\ gState # "rejected"
    /\ gState \in {"pending", "resolved"} =>
           \A c \in CategorySet :
               fetchLog[c].fallback # "none" => fetchLog[c].featured = "empty"
    /\ gState = "resolved" =>
           /\ Len(glimpses.c) = Len(categories)
           /\ \A i \in 1..Len(categories) :
                  LET entry == glimpses.c[i].v
                      articles == Get(entry, "articles")
                  IN  /\ Get(entry, "category") = JStr(categories[i])
                      /\ IsArray(articles)
                      /\ Len(articles.c) <= GlimpseSize
                      /\ \A k \in 1..Len(articles.c) :
                             Get(articles.c[k].v, "category") = JStr(categories[i])

\* C7 witness: a resolved call in which one category was served by its featured
\* fetch, one by its fallback fetch with more articles than fit, and one got none
C7_Witness ==
    /\ gState = "resolved"
    /\ fetchLog["culture"].featured = "nonempty"
    /\ fetchLog["travel"].fallback = "resolved"
    /\ Len(Get(glimpses.c[6].v, "articles").c) = GlimpseSize
    /\ fetchLog["food"].fallback = "resolved"
    /\ Len(Get(glimpses.c[3].v, "articles").c) = 0


====
